---- MODULE Spec2Model ----
(***************************************************************************)
(* State-machine model of the geodog raster-to-vector pipeline             *)
(* (image_to_geojson.py / image_to_shapefile.py, image_to_geojson_grid).   *)
(*                                                                         *)
(* Numbers.  Python floats are modelled as exact rationals:                *)
(*   - a geographic x coordinate is a numerator over `width`, a y          *)
(*     coordinate a numerator over `height` (the denominators of the       *)
(*     affine transform built by from_bounds);                             *)
(*   - a k-means centre is a record [s, w]: the vector s divided by w.     *)
(* Floating-point rounding is not modelled.                                *)
(***************************************************************************)
EXTENDS Integers, Sequences, FiniteSets, TLC

\* ------------------------------------------------------------------ bounds
MaxW == 2       \* raster widths 1..MaxW
MaxH == 2       \* raster heights 1..MaxH
MaxGrid == 2    \* grid sizes -MaxGrid..MaxGrid
MaxK == 2       \* requested cluster counts 1..MaxK

\* ----------------------------------------------------------------- helpers
Max2(a, b) == IF a >= b THEN a ELSE b
Min2(a, b) == IF a <= b THEN a ELSE b
Sq(a) == a * a
Null == "null"
NaN == "nan"

RECURSIVE SumSeq(_)
SumSeq(s) == IF s = <<>> THEN 0 ELSE Head(s) + SumSeq(Tail(s))

SetMin(S) == LET e == CHOOSE e \in S : \A o \in S : e <= o IN e

SetMax(S) == LET e == CHOOSE e \in S : \A o \in S : e >= o IN e

\* A range that steps by the magnitude of its step.
PyRange_AbsStep(start, stop, step) ==
    LET m == IF step > 0 THEN step ELSE -step
    IN  IF stop <= start THEN <<>>
        ELSE [i \in 1..((stop - start + m - 1) \div m) |-> start + (i - 1) * m]

\* Python range(start, stop, step) for step # 0, as a sequence.
PyRange(start, stop, step) ==
    IF step > 0
    THEN IF stop <= start THEN <<>>
         ELSE [i \in 1..((stop - start + step - 1) \div step) |-> start + (i - 1) * step]
    ELSE IF stop >= start THEN <<>>
         ELSE [i \in 1..((start - stop + (-step) - 1) \div (-step)) |-> start + (i - 1) * step]

\* ------------------------------------------------------------------ colors
\* '{:02x}'.format(v) for an integer v >= 0: at least two lowercase hex digits.
HexChars == <<"0", "1", "2", "3", "4", "5", "6", "7",
              "8", "9", "a", "b", "c", "d", "e", "f">>

RECURSIVE HexDigits(_)
HexDigits(v) == IF v < 16 THEN HexChars[v + 1]
                ELSE HexDigits(v \div 16) \o HexChars[(v % 16) + 1]

Format02x(v) == IF v < 16 THEN "0" \o HexChars[v + 1] ELSE HexDigits(v)

\* rgb_to_hex(r, g, b): the three arguments are formatted in the order given.
rgb_to_hex(r, g, b) == "#" \o Format02x(r) \o Format02x(g) \o Format02x(b)

\* cv2.imread: the decoded pixel array is in blue-green-red channel order.
\* A raster pixel is <<r, g, b>>; the array element is <<b, g, r>>.
imread(pixels) ==
    [py \in DOMAIN pixels |->
        [px \in DOMAIN pixels[py] |->
            <<pixels[py][px][3], pixels[py][px][2], pixels[py][px][1]>>]]

\* img[y:y+grid_size, x:x+grid_size] followed by reshape(-1, 3): numpy clips
\* the slice at the array edge; the pixels are listed row by row.
ImgSection(im, h, w, py, px, size) ==
    LET r1 == Min2(py + size, h)
        c1 == Min2(px + size, w)
        nr == r1 - py
        nc == c1 - px
    IN  [i \in 1..(nr * nc) |-> im[py + ((i - 1) \div nc)][px + ((i - 1) % nc)]]

\* A per-channel mean rounded to the nearest integer.
get_dominant_color_Rounded(img_section) ==
    [f \in 1..3 |->
        (2 * SumSeq([i \in 1..Len(img_section) |-> img_section[i][f]])
            + Len(img_section)) \div (2 * Len(img_section))]

\* np.mean(colors, axis=0).astype(int): per-channel mean, truncated.
get_dominant_color(img_section) ==
    [f \in 1..3 |->
        SumSeq([i \in 1..Len(img_section) |-> img_section[i][f]]) \div Len(img_section)]

\* ---------------------------------------------------------------- geometry
\* A geometry of the shapefile is an axis-aligned box [x0, y0, x1, y1] in
\* integer geographic coordinates: a polygon when it has positive area, a
\* point when x0 = x1 and y0 = y1.
IsPoint(g) == g.x0 = g.x1 /\ g.y0 = g.y1

\* gdf.total_bounds: (minx, miny, maxx, maxy) over all geometries; NaN for an
\* empty frame.
total_bounds(g) ==
    IF g = <<>>
    THEN [nan |-> TRUE, minx |-> 0, miny |-> 0, maxx |-> 0, maxy |-> 0]
    ELSE [nan  |-> FALSE,
          minx |-> SetMin({g[i].x0 : i \in DOMAIN g}),
          miny |-> SetMin({g[i].y0 : i \in DOMAIN g}),
          maxx |-> SetMax({g[i].x1 : i \in DOMAIN g}),
          maxy |-> SetMax({g[i].y1 : i \in DOMAIN g})]

\* A transform whose rows grow northwards from the southern edge.
from_bounds_NoFlip(b, w, h) ==
    [nan |-> b.nan, c |-> b.minx, f |-> b.miny,
     an |-> b.maxx - b.minx, en |-> b.maxy - b.miny, w |-> w, h |-> h]

\* rasterio from_bounds(west, south, east, north, width, height):
\* Affine.translation(west, north) * Affine.scale((east - west) / width,
\* (south - north) / height).  a = an / w, e = en / h.
from_bounds(b, w, h) ==
    [nan |-> b.nan, c |-> b.minx, f |-> b.maxy,
     an |-> b.maxx - b.minx, en |-> b.miny - b.maxy, w |-> w, h |-> h]

\* transform * (px, py) = (a * px + c, e * py + f); the result is the pair of
\* numerators over w and over h.
ApplyTransform(t, px, py) ==
    IF t.nan THEN <<NaN, NaN>>
    ELSE <<t.c * t.w + t.an * px, t.f * t.h + t.en * py>>

\* image_to_points.pixel_to_geo: returns (lat, lon), here the numerator of
\* lat over height and the numerator of lon over width.
pixel_to_geo(px, py, w, h, nw_lat, nw_lon, se_lat, se_lon) ==
    LET lon == nw_lon * w + (se_lon - nw_lon) * px
        lat == nw_lat * h - (nw_lat - se_lat) * py
    IN  <<lat, lon>>

\* grid_size * max(maxx - minx, maxy - miny) / max(width, height), as n / d.
BufferDistance(size, b, w, h) ==
    [n |-> size * Max2(b.maxx - b.minx, b.maxy - b.miny), d |-> Max2(w, h)]

\* geometry.buffer(dist) of one geometry: the set of points within dist of
\* it.  The result is `core` (coordinates over dist.d) widened by the radius
\* rn / d.  A point or a polygon fully eroded by a negative distance gives
\* the empty polygon; so does a point buffered by 0.  (The library
\* approximates the rounded corners by short segments; the model takes the
\* exact disc.)
buffer(g, dist) ==
    IF dist.n >= 0
    THEN [empty |-> (dist.n = 0 /\ IsPoint(g)),
          core  |-> [x0 |-> g.x0 * dist.d, y0 |-> g.y0 * dist.d,
                     x1 |-> g.x1 * dist.d, y1 |-> g.y1 * dist.d],
          rn |-> dist.n, d |-> dist.d]
    ELSE LET c == [x0 |-> g.x0 * dist.d - dist.n, y0 |-> g.y0 * dist.d - dist.n,
                   x1 |-> g.x1 * dist.d + dist.n, y1 |-> g.y1 * dist.d + dist.n]
         IN  [empty |-> (c.x0 >= c.x1 \/ c.y0 >= c.y1),
              core |-> c, rn |-> 0, d |-> dist.d]

\* shapely Polygon(shell): the shell as given; exterior.coords closes the ring.
Polygon(shell) == shell
\* Coordinates that leave the ring open.
ExteriorCoords_Open(poly) == poly

ExteriorCoords(poly) == Append(poly, poly[1])

\* buffered.intersects(poly) for one buffered geometry and a cell polygon
\* (an axis-aligned box): they share a point iff the gap between `core` and
\* the box is at most the radius.  x gaps are scaled by d * w, y gaps by d * h.
intersects(bg, poly, w, h) ==
    LET pxmin == SetMin({poly[i][1] : i \in DOMAIN poly})
        pxmax == SetMax({poly[i][1] : i \in DOMAIN poly})
        pymin == SetMin({poly[i][2] : i \in DOMAIN poly})
        pymax == SetMax({poly[i][2] : i \in DOMAIN poly})
        dx == Max2(0, Max2(bg.core.x0 * w - pxmax * bg.d, pxmin * bg.d - bg.core.x1 * w))
        dy == Max2(0, Max2(bg.core.y0 * h - pymax * bg.d, pymin * bg.d - bg.core.y1 * h))
    IN  /\ ~bg.empty
        /\ Sq(dx) * Sq(h) + Sq(dy) * Sq(w) <= Sq(bg.rn) * Sq(w) * Sq(h)

\* buffered_geometry.intersects(poly).any()
IntersectsAny(bgs, poly, w, h) ==
    \E i \in DOMAIN bgs : intersects(bgs[i], poly, w, h)

\* ------------------------------------------------------------------ inputs
Red   == <<255, 0, 0>>
Blue  == <<0, 0, 255>>
Olive == <<120, 200, 30>>

Uniform(w, h, a) == [py \in 0..(h - 1) |-> [px \in 0..(w - 1) |-> a]]
VSplit(w, h, a, b, cut) ==
    [py \in 0..(h - 1) |-> [px \in 0..(w - 1) |-> IF px < cut THEN a ELSE b]]
HSplit(w, h, a, b, cut) ==
    [py \in 0..(h - 1) |-> [px \in 0..(w - 1) |-> IF py < cut THEN a ELSE b]]

\* Raster pixel arrays (red-green-blue) of a given size.
Rasters(w, h) ==
    {Uniform(w, h, Red), Uniform(w, h, Olive)}
    \cup {VSplit(w, h, Red, Blue, c) : c \in 1..(w - 1)}
    \cup {VSplit(w, h, Blue, Olive, c) : c \in 1..(w - 1)}
    \cup {HSplit(w, h, Olive, Red, c) : c \in 1..(h - 1)}

ImageFile(w, h, px) ==
    [exists |-> TRUE, readable |-> TRUE, width |-> w, height |-> h, pixels |-> px]
MissingImage ==
    [exists |-> FALSE, readable |-> FALSE, width |-> 0, height |-> 0, pixels |-> <<>>]
CorruptImage ==
    [exists |-> TRUE, readable |-> FALSE, width |-> 0, height |-> 0, pixels |-> <<>>]

ImageFiles ==
    {MissingImage, CorruptImage}
    \cup UNION {{ImageFile(w, h, px) : px \in Rasters(w, h)} :
                    w \in 1..MaxW, h \in 1..MaxH}

Box(x0, y0, x1, y1) == [x0 |-> x0, y0 |-> y0, x1 |-> x1, y1 |-> y1]

\* Shapefile contents: one polygon; a polygon and a far point; one point;
\* no geometry at all; one polygon without a CRS; or a file that cannot be
\* read.
\* gdf.crs is the coordinate reference system read from the file, or None.
ShapeFile(geoms) == [readable |-> TRUE, geoms |-> geoms, crs |-> "EPSG:4326"]
ShapeFileNoCRS(geoms) == [readable |-> TRUE, geoms |-> geoms, crs |-> Null]
MissingShapefile == [readable |-> FALSE, geoms |-> <<>>, crs |-> Null]

Shapefiles ==
    { ShapeFile(<<Box(0, 0, 4, 2)>>),
      ShapeFile(<<Box(0, 0, 1, 1), Box(8, 6, 8, 6)>>),
      ShapeFile(<<Box(3, 3, 3, 3)>>),
      ShapeFile(<<>>),
      ShapeFileNoCRS(<<Box(0, 0, 4, 2)>>),
      MissingShapefile }

\* --grid_size is any integer (type=int): negative, zero or positive.
GridSizes == (-MaxGrid)..MaxGrid
Offsets == { <<0, 0>>, <<3, -1>> }
ClusterCounts == 1..MaxK

\* The 20 x 20 half-red / half-blue rasters with a polygon covering the extent.
ScenarioRuns ==
    { [image |-> ImageFile(20, 20, px), shapefile |-> ShapeFile(<<Box(0, 0, 2, 2)>>),
       grid_size |-> 10, offset |-> <<0, 0>>, n_clusters |-> 2] :
        px \in { VSplit(20, 20, Red, Blue, 10), VSplit(20, 20, Blue, Red, 10),
                 HSplit(20, 20, Red, Blue, 10), HSplit(20, 20, Blue, Red, 10) } }

Runs ==
    [image : ImageFiles, shapefile : Shapefiles, grid_size : GridSizes,
     offset : Offsets, n_clusters : ClusterCounts]
    \cup ScenarioRuns

\* A file holds the sequence of JSON documents written to it.
NoFile == [exists |-> FALSE, content |-> <<>>]

\* ------------------------------------------------------------------- state
VARIABLES
    image_file,         \* the file at image_path
    shapefile,          \* the file at shapefile_path
    grid_size, x_offset, y_offset, n_clusters,
    pc,                 \* position in image_to_geojson_grid
    img, height, width, \* decoded array (BGR) and its shape
    gdf, bounds, transform, buffered_geometry,
    y, x,               \* grid loop variables
    color_data, grid_cells,
    cells,              \* history: one record per grid cell visited
    kmeans,             \* the estimator: centers, labels_, iteration state
    cluster_centers, cluster_hex_colors,
    features,
    out_file,           \* the file at output_geojson_path
    error               \* exception raised to the caller, or Null

\* State of image_to_points.py (image_to_geo_csv_hex_filtered_with_id).  A run
\* of it uses image_file, pc, img, height, width, y, x, out_file and error
\* for its own locals of the same names, and the variables below.
VARIABLES
    sample_rate, color_threshold,
    numpy,              \* the scalar promotion rules of the installed NumPy
    color_to_id,        \* dict, as its items in insertion order
    next_id,
    lookups             \* history: one record per find_closest_color call

points == <<sample_rate, color_threshold, numpy, color_to_id, next_id, lookups>>

\* sepal_shaper.shapefile_to_csv
VARIABLES
    input_shapefile,    \* the file at input_shapefile
    properties_csv,     \* the file at properties_csv
    feature_idx,                \* position of gdf.iterrows()
    total_count, kept_count, error_count, no_match_count,
    outcomes            \* history: the three outcome counters after each feature

shaper == <<input_shapefile, properties_csv, feature_idx, total_count, kept_count,
            error_count, no_match_count, outcomes>>

\* No run of shapefile_to_csv: no files, no counters.
ShaperIdle ==
    /\ input_shapefile = [readable |-> FALSE, crs |-> Null, rows |-> <<>>]
    /\ properties_csv = [readable |-> FALSE, columns |-> <<>>, table |-> <<>>]
    /\ feature_idx = 0
    /\ total_count = 0 /\ kept_count = 0 /\ error_count = 0 /\ no_match_count = 0
    /\ outcomes = <<>>

vars == <<image_file, shapefile, grid_size, x_offset, y_offset, n_clusters,
          pc, img, height, width, gdf, bounds, transform, buffered_geometry,
          y, x, color_data, grid_cells, cells, kmeans,
          cluster_centers, cluster_hex_colors, features, out_file, error, points,
          shaper>>

\* What a run of image_to_geojson_grid never writes: its arguments and the
\* state of the other scripts.
inputs == <<image_file, shapefile, grid_size, x_offset, y_offset, n_clusters, points,
            shaper>>
loaded == <<img, height, width, gdf, bounds, transform, buffered_geometry>>

Init ==
    \E run \in Runs :
        /\ image_file = run.image
        /\ shapefile = run.shapefile
        /\ grid_size = run.grid_size
        /\ x_offset = run.offset[1]
        /\ y_offset = run.offset[2]
        /\ n_clusters = run.n_clusters
        /\ pc = "start"
        /\ img = Null /\ height = Null /\ width = Null
        /\ gdf = Null /\ bounds = Null /\ transform = Null
        /\ buffered_geometry = Null
        /\ y = Null /\ x = Null
        /\ color_data = <<>> /\ grid_cells = <<>> /\ cells = <<>>
        /\ kmeans = Null
        /\ cluster_centers = Null /\ cluster_hex_colors = Null
        /\ features = <<>>
        /\ out_file = NoFile
        /\ error = Null
        /\ sample_rate = 0 /\ color_threshold = 0 /\ numpy = Null
        /\ color_to_id = <<>> /\ next_id = 0 /\ lookups = <<>>
        /\ ShaperIdle

\* ---------------------------------------------------------------- loading
\* Lines 19-45: existence check, imread, read_file, bounds, transform,
\* buffer; then the first evaluation of the two range() loops.
ys == PyRange(0, height, grid_size)
xs == PyRange(0, width, grid_size)

LoadMissing ==
    /\ pc = "start"
    /\ ~image_file.exists \/ ~image_file.readable
    /\ pc' = "returned"
    /\ UNCHANGED <<inputs, loaded, y, x, color_data, grid_cells, cells, kmeans,
                   cluster_centers, cluster_hex_colors, features, out_file, error>>

LoadShapefileError ==
    /\ pc = "start"
    /\ image_file.exists /\ image_file.readable
    /\ ~shapefile.readable
    /\ img' = imread(image_file.pixels)
    /\ height' = image_file.height
    /\ width' = image_file.width
    /\ pc' = "raised"
    /\ error' = "DriverError"
    /\ UNCHANGED <<inputs, gdf, bounds, transform, buffered_geometry, y, x,
                   color_data, grid_cells, cells, kmeans,
                   cluster_centers, cluster_hex_colors, features, out_file>>

\* Lines 19-47 with grid_size = 0: everything is loaded, then
\* range(0, height, 0) raises ValueError.
LoadRangeError ==
    /\ pc = "start"
    /\ image_file.exists /\ image_file.readable
    /\ shapefile.readable
    /\ grid_size = 0
    /\ img' = imread(image_file.pixels)
    /\ height' = image_file.height
    /\ width' = image_file.width
    /\ gdf' = shapefile.geoms
    /\ bounds' = total_bounds(gdf')
    /\ transform' = from_bounds(bounds', width', height')
    /\ buffered_geometry' =
          LET dist == BufferDistance(grid_size, bounds', width', height')
          IN  [i \in DOMAIN gdf' |-> buffer(gdf'[i], dist)]
    /\ pc' = "raised"
    /\ error' = "ValueError"
    /\ UNCHANGED <<inputs, y, x, color_data, grid_cells, cells, kmeans,
                   cluster_centers, cluster_hex_colors, features, out_file>>

Load ==
    /\ pc = "start"
    /\ image_file.exists /\ image_file.readable
    /\ shapefile.readable
    /\ grid_size # 0
    /\ img' = imread(image_file.pixels)
    /\ height' = image_file.height
    /\ width' = image_file.width
    /\ gdf' = shapefile.geoms
    /\ bounds' = total_bounds(gdf')
    /\ transform' = from_bounds(bounds', width', height')
    /\ buffered_geometry' =
          LET dist == BufferDistance(grid_size, bounds', width', height')
          IN  [i \in DOMAIN gdf' |-> buffer(gdf'[i], dist)]
    /\ y' = 1 /\ x' = 1
    /\ pc' = "grid"
    /\ UNCHANGED <<inputs, color_data, grid_cells, cells, kmeans,
                   cluster_centers, cluster_hex_colors, features, out_file, error>>

\* ------------------------------------------------------------- grid loop
\* Lines 47-62, one pass of the inner loop body for the cell at
\* (xs[x], ys[y]); y and x index the two range() sequences.
\* A cell polygon that ignores the offsets.
CellPolygon_NoOffset(t, cx, cy, size, xoff, yoff) ==
    LET p1 == ApplyTransform(t, cx, cy)
        p2 == ApplyTransform(t, cx + size, cy + size)
    IN  Polygon(<< <<p1[1], p1[2]>>, <<p2[1], p1[2]>>,
                   <<p2[1], p2[2]>>, <<p1[1], p2[2]>> >>)

CellPolygon(t, cx, cy, size, xoff, yoff) ==
    LET p1 == ApplyTransform(t, cx + xoff, cy + yoff)
        p2 == ApplyTransform(t, cx + size + xoff, cy + size + yoff)
    IN  Polygon(<< <<p1[1], p1[2]>>, <<p2[1], p1[2]>>,
                   <<p2[1], p2[2]>>, <<p1[1], p2[2]>> >>)

SampleCell ==
    /\ pc = "grid"
    /\ y <= Len(ys) /\ x <= Len(xs)
    /\ LET cy == ys[y]
           cx == xs[x]
           img_section == ImgSection(img, height, width, cy, cx, grid_size)
           dominant_color == get_dominant_color(img_section)
           poly == CellPolygon(transform, cx, cy, grid_size, x_offset, y_offset)
           hit == IntersectsAny(buffered_geometry, poly, width, height)
       IN  /\ color_data' = IF hit THEN Append(color_data, dominant_color)
                            ELSE color_data
           /\ grid_cells' = IF hit THEN Append(grid_cells, <<poly, dominant_color>>)
                            ELSE grid_cells
           /\ cells' = Append(cells,
                 [x |-> cx, y |-> cy,
                  box |-> Box(cx, cy, cx + grid_size, cy + grid_size),
                  section |-> Box(cx, cy, Min2(cx + grid_size, width),
                                  Min2(cy + grid_size, height)),
                  npixels |-> Len(img_section),
                  color |-> dominant_color, poly |-> poly, retained |-> hit])
    /\ IF x < Len(xs) THEN x' = x + 1 /\ y' = y
       ELSE x' = 1 /\ y' = y + 1
    /\ UNCHANGED <<inputs, loaded, pc, kmeans, cluster_centers,
                   cluster_hex_colors, features, out_file, error>>

\* ----------------------------------------------------------------- k-means
\* sklearn.cluster.KMeans(n_clusters, random_state=42) with its defaults:
\* init='k-means++', max_iter=300, tol=1e-4, Lloyd's algorithm, one
\* initialisation.  The seeded generator is modelled as a choice among the
\* draws it can make.

Center(s, w) == [s |-> s, w |-> w]

\* Squared distance from point p to centre c, times c.w^2.
DistNum(p, c) == Sq(p[1] * c.w - c.s[1]) + Sq(p[2] * c.w - c.s[2])
                 + Sq(p[3] * c.w - c.s[3])

\* p is strictly closer to centre a than to centre b.
Closer(p, a, b) == DistNum(p, a) * Sq(b.w) < DistNum(p, b) * Sq(a.w)

\* argmin over the centres of the distance to p: the lowest index wins ties.
Nearest(p, centers) ==
    CHOOSE j \in DOMAIN centers :
        \A i \in DOMAIN centers :
            /\ i < j => Closer(p, centers[j], centers[i])
            /\ i > j => ~Closer(p, centers[i], centers[j])

\* The assignment step: labels of all samples for the given centres.
EStep(X, centers) == [i \in DOMAIN X |-> Nearest(X[i], centers)]

\* k-means++: the first centre is any sample; each further centre is a
\* sample drawn with probability proportional to its squared distance to the
\* nearest centre chosen so far, hence a sample at distance > 0; when every
\* sample sits on a chosen centre the draw falls on sample 0.
RECURSIVE KppExtend(_, _, _)
KppExtend(X, chosen, k) ==
    IF Len(chosen) = k THEN {chosen}
    ELSE LET far == {X[i] : i \in {n \in DOMAIN X :
                        \A j \in DOMAIN chosen : DistNum(X[n], chosen[j]) > 0}}
             next == IF far = {} THEN {X[1]} ELSE far
         IN  UNION {KppExtend(X, Append(chosen, Center(p, 1)), k) : p \in next}

KppInits(X, k) ==
    UNION {KppExtend(X, <<Center(X[i], 1)>>, k) : i \in DOMAIN X}

VecAdd(a, b) == <<a[1] + b[1], a[2] + b[2], a[3] + b[3]>>
VecSub(a, b) == <<a[1] - b[1], a[2] - b[2], a[3] - b[3]>>

VecSum(X) == [f \in 1..3 |-> SumSeq([i \in DOMAIN X |-> X[i][f]])]

\* The update step before empty clusters are handled: per cluster the sum of
\* its samples and their number.
ClusterSums(X, labels, k) ==
    [j \in 1..k |->
        [s |-> [f \in 1..3 |->
                  SumSeq([i \in DOMAIN X |-> IF labels[i] = j THEN X[i][f] ELSE 0])],
         w |-> SumSeq([i \in DOMAIN X |-> IF labels[i] = j THEN 1 ELSE 0])]]

RECURSIVE SetToSeq(_)
SetToSeq(S) == IF S = {} THEN <<>>
               ELSE LET m == SetMin(S) IN <<m>> \o SetToSeq(S \ {m})

\* _relocate_empty_clusters: `far` lists, for each empty cluster in turn, one
\* of the samples farthest from their own centre; the sample is taken out of
\* its cluster and becomes the empty cluster's only member.
RECURSIVE Relocate(_, _, _, _, _)
Relocate(X, labels, sums, empty, far) ==
    IF empty = <<>> THEN sums
    ELSE LET new == Head(empty)
             idx == Head(far)
             old == labels[idx]
             moved == [sums EXCEPT
                          ![old] = [s |-> VecSub(sums[old].s, X[idx]),
                                    w |-> sums[old].w - 1],
                          ![new] = [s |-> X[idx], w |-> 1]]
         IN  Relocate(X, labels, moved, Tail(empty), Tail(far))

\* np.argpartition(distances, -n)[:-n-1:-1]: the n samples farthest from
\* their own centre.  The result depends on the distances alone; among equal
\* distances the model lets it prefer the lowest sample indices
\* (ties = "low") or the highest (ties = "high"), the same way on every call
\* of one fit.
RECURSIVE FarSamples(_, _, _, _, _, _)
FarSamples(X, labels, centers, n, ties, taken) ==
    IF n = 0 THEN <<>>
    ELSE LET Farther(a, b) ==  \* a is strictly farther from its centre than b
                 DistNum(X[a], centers[labels[a]]) * Sq(centers[labels[b]].w)
                     > DistNum(X[b], centers[labels[b]]) * Sq(centers[labels[a]].w)
             Before(a, b) ==   \* a is handed back before b
                 \/ Farther(a, b)
                 \/ /\ ~Farther(b, a)
                    /\ IF ties = "low" THEN a < b ELSE a > b
             left == DOMAIN X \ taken
             top == CHOOSE a \in left : \A b \in left \ {a} : Before(a, b)
         IN  <<top>> \o FarSamples(X, labels, centers, n - 1, ties, taken \cup {top})

\* _average_centers: a sum is divided by its weight; a cluster left with no
\* weight keeps its sum, which is the origin of the mean-centred data, the
\* mean of all samples.
AverageCenters(X, sums) ==
    [j \in DOMAIN sums |->
        IF sums[j].w > 0 THEN Center(sums[j].s, sums[j].w)
        ELSE Center(VecSum(X), Len(X))]

\* The centres after one Lloyd iteration that starts from `centers`.
NewCenters(X, centers, ties) ==
    LET k == Len(centers)
        labels == EStep(X, centers)
        sums == ClusterSums(X, labels, k)
        empty == SetToSeq({j \in 1..k : sums[j].w = 0})
        far == FarSamples(X, labels, centers, Len(empty), ties, {})
    IN  AverageCenters(X, Relocate(X, labels, sums, empty, far))

\* Some cluster receives no sample in the assignment step.
HasEmptyCluster(X, centers) ==
    \E j \in DOMAIN centers : \A i \in DOMAIN X : Nearest(X[i], centers) # j

\* Squared length of the move of one centre: ShiftNum / ShiftDen.
ShiftNum(old, new) == Sq(new.s[1] * old.w - old.s[1] * new.w)
                      + Sq(new.s[2] * old.w - old.s[2] * new.w)
                      + Sq(new.s[3] * old.w - old.s[3] * new.w)
ShiftDen(old, new) == Sq(old.w * new.w)

\* center_shift_tot = 0.
ShiftZero(old, new) == \A j \in DOMAIN old : ShiftNum(old[j], new[j]) = 0

\* center_shift_tot <= tol can hold only if no centre moved by more than 2
\* in squared length: tol = 1e-4 * mean variance of the channels, below 1.63
\* for 8-bit data.  Within this range the test may go either way.
ShiftSmall(old, new) ==
    \A j \in DOMAIN old : ShiftNum(old[j], new[j]) <= 2 * ShiftDen(old[j], new[j])

\* Cluster ids count from 0; Nearest and EStep index the centre list from 1.
Labels0(labels) == [i \in DOMAIN labels |-> labels[i] - 1]

\* A lookup that resolves distance ties towards the highest centre index.
predict_LastNearest(km, color) ==
    LET centers == km.cluster_centers_
    IN  (CHOOSE j \in DOMAIN centers :
            \A i \in DOMAIN centers :
                /\ i > j => Closer(color, centers[j], centers[i])
                /\ i < j => ~Closer(color, centers[i], centers[j])) - 1

\* kmeans.predict([color])[0]: id of the nearest fitted centre.
predict(km, color) == Nearest(color, km.cluster_centers_) - 1

\* A fit that skips clustering, instead of raising, when there is no sample.
FitRaises_SkipsEmpty ==
    /\ pc = "grid"
    /\ y > Len(ys)
    /\ Len(color_data) = 0 \/ Len(color_data) < n_clusters
    /\ IF Len(color_data) = 0
       THEN pc' = "features" /\ error' = error
       ELSE pc' = "raised" /\ error' = "ValueError"
    /\ UNCHANGED <<inputs, loaded, y, x, color_data, grid_cells, cells, kmeans,
                   cluster_centers, cluster_hex_colors, features, out_file>>

\* Lines 65-66: the checks of fit() that raise ValueError.
FitRaises ==
    /\ pc = "grid"
    /\ y > Len(ys)
    /\ Len(color_data) = 0 \/ Len(color_data) < n_clusters
    /\ pc' = "raised"
    /\ error' = "ValueError"
    /\ UNCHANGED <<inputs, loaded, y, x, color_data, grid_cells, cells, kmeans,
                   cluster_centers, cluster_hex_colors, features, out_file>>

\* A fit that draws one centre more than requested.
FitInit_OneMore ==
    /\ pc = "grid"
    /\ y > Len(ys)
    /\ Len(color_data) >= 1 /\ Len(color_data) >= n_clusters + 1
    /\ \E c \in KppInits(color_data, n_clusters + 1), ties \in {"low", "high"} :
          kmeans' = [cluster_centers_ |-> c,
                     labels_ |-> [i \in DOMAIN color_data |-> -1],
                     ties |-> ties, converged |-> FALSE]
    /\ pc' = "lloyd"
    /\ UNCHANGED <<inputs, loaded, y, x, color_data, grid_cells, cells,
                   cluster_centers, cluster_hex_colors, features, out_file, error>>

\* A fit that starts as soon as enough cells have been collected.
FitInit_Early ==
    /\ pc = "grid"
    /\ Len(color_data) >= 1 /\ Len(color_data) >= n_clusters
    /\ \E c \in KppInits(color_data, n_clusters), ties \in {"low", "high"} :
          kmeans' = [cluster_centers_ |-> c,
                     labels_ |-> [i \in DOMAIN color_data |-> -1],
                     ties |-> ties, converged |-> FALSE]
    /\ pc' = "lloyd"
    /\ UNCHANGED <<inputs, loaded, y, x, color_data, grid_cells, cells,
                   cluster_centers, cluster_hex_colors, features, out_file, error>>

\* Lines 65-66: fit() starts; the initial centres are drawn and labels_old
\* is filled with -1.
FitInit ==
    /\ pc = "grid"
    /\ y > Len(ys)
    /\ Len(color_data) >= 1 /\ Len(color_data) >= n_clusters
    /\ \E c \in KppInits(color_data, n_clusters), ties \in {"low", "high"} :
          kmeans' = [cluster_centers_ |-> c,
                     labels_ |-> [i \in DOMAIN color_data |-> -1],
                     ties |-> ties, converged |-> FALSE]
    /\ pc' = "lloyd"
    /\ UNCHANGED <<inputs, loaded, y, x, color_data, grid_cells, cells,
                   cluster_centers, cluster_hex_colors, features, out_file, error>>

\* One iteration of fit()'s loop `for i in range(max_iter)` (max_iter = 300).
\*  - The loop ends when the labels did not change (strict convergence) or
\*    the centres moved by no more than tol.
\*  - Otherwise it goes on, or this was the last of the max_iter iterations.
\*    The model does not count iterations.  Without empty clusters every
\*    iteration lowers the inertia and the loop converges long before
\*    max_iter on the sample sizes modelled, so the loop can run out only
\*    after an iteration that relocated an empty cluster.
\* Unless convergence was strict the labels are recomputed for the final
\* centres.
LloydIter ==
    /\ pc = "lloyd"
    /\ LET X == color_data
           old == kmeans.cluster_centers_
           new == NewCenters(X, old, kmeans.ties)
           labels == Labels0(EStep(X, old))
           strict == labels = kmeans.labels_
       IN  \/ /\ strict \/ ShiftSmall(old, new)
              /\ kmeans' = [kmeans EXCEPT
                               !.cluster_centers_ = new,
                               !.labels_ = IF strict THEN labels
                                           ELSE Labels0(EStep(X, new)),
                               !.converged = TRUE]
              /\ pc' = "fitted"
           \/ /\ ~strict /\ ~ShiftZero(old, new)
              /\ kmeans' = [kmeans EXCEPT !.cluster_centers_ = new,
                                          !.labels_ = labels]
              /\ pc' = "lloyd"
           \/ /\ ~strict /\ ~ShiftZero(old, new)
              /\ HasEmptyCluster(X, old)
              /\ kmeans' = [kmeans EXCEPT
                               !.cluster_centers_ = new,
                               !.labels_ = Labels0(EStep(X, new))]
              /\ pc' = "fitted"
    /\ UNCHANGED <<inputs, loaded, y, x, color_data, grid_cells, cells,
                   cluster_centers, cluster_hex_colors, features, out_file, error>>

\* ---------------------------------------------------- palette and features
\* str(n) for n >= 0.
RECURSIVE Str(_)
Str(n) == IF n < 10 THEN HexChars[n + 1] ELSE Str(n \div 10) \o HexChars[(n % 10) + 1]

\* kmeans.cluster_centers_.astype(int): each coordinate truncated.
AsInt(centers) ==
    [j \in DOMAIN centers |->
        [f \in 1..3 |-> centers[j].s[f] \div centers[j].w]]

\* Lines 69-70.
ClusterCenters ==
    /\ pc = "fitted"
    /\ cluster_centers' = AsInt(kmeans.cluster_centers_)
    /\ cluster_hex_colors' =
          [j \in DOMAIN cluster_centers' |->
              rgb_to_hex(cluster_centers'[j][1], cluster_centers'[j][2],
                         cluster_centers'[j][3])]
    /\ pc' = "features"
    /\ UNCHANGED <<inputs, loaded, y, x, color_data, grid_cells, cells, kmeans,
                   features, out_file, error>>

\* Lines 75-87: the feature of one retained cell.  cluster_hex_colors is a
\* Python list, indexed from 0.
Feature(poly, color, km, hex) ==
    LET cluster == predict(km, color)
    IN  [type |-> "Feature",
         geometry |-> [type |-> "Polygon",
                       coordinates |-> <<ExteriorCoords(poly)>>],
         properties |-> [color |-> hex[cluster + 1],
                         cluster |-> "Cluster_" \o Str(cluster)]]

\* A loop over grid_cells that runs from the last cell to the first.
MakeFeature_Reversed ==
    /\ pc = "features"
    /\ Len(features) < Len(grid_cells)
    /\ LET cell == grid_cells[Len(grid_cells) - Len(features)]
       IN  features' = Append(features,
                              Feature(cell[1], cell[2], kmeans, cluster_hex_colors))
    /\ UNCHANGED <<inputs, loaded, pc, y, x, color_data, grid_cells, cells, kmeans,
                   cluster_centers, cluster_hex_colors, out_file, error>>

\* Lines 74-88, one pass of the loop over grid_cells.
MakeFeature ==
    /\ pc = "features"
    /\ Len(features) < Len(grid_cells)
    /\ LET cell == grid_cells[Len(features) + 1]
       IN  features' = Append(features,
                              Feature(cell[1], cell[2], kmeans, cluster_hex_colors))
    /\ UNCHANGED <<inputs, loaded, pc, y, x, color_data, grid_cells, cells, kmeans,
                   cluster_centers, cluster_hex_colors, out_file, error>>

\* Line 95: open(output_geojson_path, 'w') creates or truncates the file.
OpenOutput ==
    /\ pc = "features"
    /\ Len(features) = Len(grid_cells)
    /\ out_file' = [exists |-> TRUE, content |-> <<>>]
    /\ pc' = "dump"
    /\ UNCHANGED <<inputs, loaded, y, x, color_data, grid_cells, cells, kmeans,
                   cluster_centers, cluster_hex_colors, features, error>>

\* A dump that stops before the last feature.
DumpOutput_Partial ==
    /\ pc = "dump"
    /\ out_file' = [exists |-> TRUE,
                    content |-> <<[type |-> "FeatureCollection",
                                   features |-> SubSeq(features, 1, Len(features) - 1)]>>]
    /\ pc' = "done"
    /\ UNCHANGED <<inputs, loaded, y, x, color_data, grid_cells, cells, kmeans,
                   cluster_centers, cluster_hex_colors, features, error>>

\* Lines 90-96: json.dump of the collection, then the file is closed.
DumpOutput ==
    /\ pc = "dump"
    /\ out_file' = [exists |-> TRUE,
                    content |-> <<[type |-> "FeatureCollection", features |-> features]>>]
    /\ pc' = "done"
    /\ UNCHANGED <<inputs, loaded, y, x, color_data, grid_cells, cells, kmeans,
                   cluster_centers, cluster_hex_colors, features, error>>

Next ==
    \/ LoadMissing
    \/ LoadShapefileError
    \/ LoadRangeError
    \/ Load
    \/ SampleCell
    \/ FitRaises
    \/ FitInit
    \/ LloydIter
    \/ ClusterCenters
    \/ MakeFeature
    \/ OpenOutput
    \/ DumpOutput

Spec == Init /\ [][Next]_vars

Terminated == pc \in {"done", "returned", "raised"}

\* ========================================================= image_to_points
\* image_to_geo_csv_hex_filtered_with_id: a first pass over the sampled
\* pixels registers colors, a second pass writes one CSV row per sampled
\* pixel that is not white.

\* ------------------------------------------------------------------ inputs
MaxSide == 2     \* image widths and heights 1..MaxSide
MaxStream == 3   \* length of the pixel pattern an image repeats
MaxRate == 2     \* sample rates -1..MaxRate

White == <<255, 255, 255>>
Shade(v) == <<v, 0, 0>>
Palette == {White, Shade(10), Shade(20), Shade(26)}

Streams == [1..MaxStream -> Palette]

\* The image that repeats the pattern row by row.
PatternImage(w, h, stream) ==
    ImageFile(w, h, [py \in 0..(h - 1) |->
                       [px \in 0..(w - 1) |-> stream[((py * w + px) % MaxStream) + 1]]])

PointImages ==
    {MissingImage, CorruptImage}
    \cup UNION {{PatternImage(w, h, st) : st \in Streams} :
                    w \in 1..MaxSide, h \in 1..MaxSide}

\* --sample-rate and --color-threshold are any integers (type=int); 12 is the
\* command line's default threshold.
SampleRates == (-1)..MaxRate
ColorThresholds == {0, 12}

\* NumPy 1.x promotes a uint8 scalar combined with a Python int to int64;
\* NumPy 2.x keeps uint8.  The script runs on whichever is installed.
NumPyVersions == {"1.x", "2.x"}

\* The corners of the bounding box, as whole degrees.
Corners == [nw_lat |-> 10, nw_lon |-> 80, se_lat |-> 6, se_lon |-> 82]

\* ------------------------------------------------------------ pure functions
is_color_valid(r, g, b) == <<r, g, b>> # <<255, 255, 255>>

\* a - b for two uint8 scalars: the difference modulo 256.
SubUint8(a, b) == (a - b) % 256

\* color_distance(color1, color2) on uint8 channels, as the number whose
\* square root the function returns.  The differences wrap modulo 256.
\* Under NumPy 1.x the squares and their sum are int64; under NumPy 2.x the
\* squares and the running sum stay uint8 and wrap modulo 256.
color_distance(color1, color2) ==
    LET d == [f \in 1..3 |-> SubUint8(color1[f], color2[f])]
    IN  IF numpy = "1.x"
        THEN Sq(d[1]) + Sq(d[2]) + Sq(d[3])
        ELSE (((((Sq(d[1]) % 256) + (Sq(d[2]) % 256)) % 256) + (Sq(d[3]) % 256)) % 256)

\* sqrt(radicand) < threshold
RootBelow(radicand, threshold) == threshold > 0 /\ radicand < Sq(threshold)

\* A search that keeps going and returns the last color within the threshold.
find_closest_color_LastMatch(color, color_list, threshold) ==
    LET hits == {i \in DOMAIN color_list :
                    RootBelow(color_distance(color, color_list[i][1]), threshold)}
    IN  IF hits = {} THEN <<>> ELSE <<color_list[SetMax(hits)][1]>>

\* find_closest_color(color, color_list, threshold): the loop over the items,
\* from item i on.  The result is <<>> for None, <<existing_color>> otherwise.
RECURSIVE FindFrom(_, _, _, _)
FindFrom(color, color_list, threshold, i) ==
    IF i > Len(color_list) THEN <<>>
    ELSE IF RootBelow(color_distance(color, color_list[i][1]), threshold)
         THEN <<color_list[i][1]>>
         ELSE FindFrom(color, color_list, threshold, i + 1)

find_closest_color(color, color_list, threshold) ==
    FindFrom(color, color_list, threshold, 1)

\* color in color_to_id, and color_to_id[color].
HasKey(items, key) == \E i \in DOMAIN items : items[i][1] = key
GetItem(items, key) == items[CHOOSE i \in DOMAIN items : items[i][1] = key][2]

\* color_to_id[key] = value: a new key goes to the end, an existing key
\* keeps its place and takes the new value.
SetItem(items, key, value) ==
    IF HasKey(items, key)
    THEN [i \in DOMAIN items |-> IF items[i][1] = key THEN <<key, value>> ELSE items[i]]
    ELSE Append(items, <<key, value>>)

\* Lines 88-94 for one pixel: the registry and next_id afterwards.
RegisterPixel(reg, bgr, threshold) ==
    LET r == bgr[3]
        g == bgr[2]
        b == bgr[1]
        color == <<r, g, b>>
        closest_color == find_closest_color(color, reg.color_to_id, threshold)
    IN  IF is_color_valid(r, g, b) /\ closest_color = <<>>
        THEN [color_to_id |-> SetItem(reg.color_to_id, color, reg.next_id),
              next_id |-> reg.next_id + 1]
        ELSE reg

\* ------------------------------------------------------------------ actions
\* The variables image_to_geo_csv_hex_filtered_with_id does not have.
gridstate == <<shapefile, grid_size, x_offset, y_offset, n_clusters,
               gdf, bounds, transform, buffered_geometry,
               color_data, grid_cells, cells, kmeans,
               cluster_centers, cluster_hex_colors, features>>
gridonly == <<gridstate, shaper>>

InitPoints ==
    /\ image_file \in PointImages
    /\ sample_rate \in SampleRates
    /\ color_threshold \in ColorThresholds
    /\ numpy \in NumPyVersions
    /\ pc = "start"
    /\ img = Null /\ height = Null /\ width = Null
    /\ y = Null /\ x = Null
    /\ color_to_id = <<>> /\ next_id = 0 /\ lookups = <<>>
    /\ out_file = NoFile
    /\ error = Null
    /\ shapefile = MissingShapefile
    /\ grid_size = 0 /\ x_offset = 0 /\ y_offset = 0 /\ n_clusters = 0
    /\ gdf = Null /\ bounds = Null /\ transform = Null
    /\ buffered_geometry = Null
    /\ color_data = <<>> /\ grid_cells = <<>> /\ cells = <<>>
    /\ kmeans = Null
    /\ cluster_centers = Null /\ cluster_hex_colors = Null
    /\ features = <<>>
    /\ ShaperIdle

\* range(0, height, sample_rate) and range(0, width, sample_rate)
pys == PyRange(0, height, sample_rate)
pxs == PyRange(0, width, sample_rate)

\* Both loops of a pass have run to their end.
PassOver == y > Len(pys) \/ Len(pxs) = 0

\* Lines 67-69 and 75-77: a missing or undecodable image prints and returns.
PointsLoadMissing ==
    /\ pc = "start"
    /\ ~image_file.exists \/ ~image_file.readable
    /\ pc' = "returned"
    /\ UNCHANGED <<image_file, points, gridonly, img, height, width, y, x,
                   out_file, error>>

\* Lines 67-86 with sample_rate = 0: the image is decoded, the registry is
\* created, and range() raises ValueError before any file is opened.
PointsRangeError ==
    /\ pc = "start"
    /\ image_file.exists /\ image_file.readable
    /\ sample_rate = 0
    /\ img' = imread(image_file.pixels)
    /\ height' = image_file.height
    /\ width' = image_file.width
    /\ color_to_id' = <<>>
    /\ next_id' = 1
    /\ pc' = "raised"
    /\ error' = "ValueError"
    /\ UNCHANGED <<image_file, sample_rate, color_threshold, numpy, lookups,
                   gridonly, y, x, out_file>>

\* Lines 67-86: decode, take the shape, create the empty registry.
PointsLoad ==
    /\ pc = "start"
    /\ image_file.exists /\ image_file.readable
    /\ sample_rate # 0
    /\ img' = imread(image_file.pixels)
    /\ height' = image_file.height
    /\ width' = image_file.width
    /\ color_to_id' = <<>>
    /\ next_id' = 1
    /\ y' = 1 /\ x' = 1
    /\ pc' = "pass1"
    /\ UNCHANGED <<image_file, sample_rate, color_threshold, numpy, lookups,
                   gridonly, out_file, error>>

\* Lines 87-94: one sampled pixel of the first pass.
FirstPass ==
    /\ pc = "pass1"
    /\ y <= Len(pys) /\ x <= Len(pxs)
    /\ LET bgr == img[pys[y]][pxs[x]]
           color == <<bgr[3], bgr[2], bgr[1]>>
           reg == RegisterPixel([color_to_id |-> color_to_id, next_id |-> next_id],
                                bgr, color_threshold)
       IN  /\ color_to_id' = reg.color_to_id
           /\ next_id' = reg.next_id
           /\ lookups' =
                IF is_color_valid(bgr[3], bgr[2], bgr[1])
                THEN Append(lookups,
                        [pass |-> 1, py |-> pys[y], px |-> pxs[x], color |-> color,
                         items |-> color_to_id,
                         result |-> find_closest_color(color, color_to_id,
                                                       color_threshold)])
                ELSE lookups
    /\ IF x < Len(pxs) THEN x' = x + 1 /\ y' = y
       ELSE x' = 1 /\ y' = y + 1
    /\ UNCHANGED <<image_file, sample_rate, color_threshold, numpy, gridonly,
                   pc, img, height, width, out_file, error>>

\* Lines 97-99: open(output_csv_path, 'w') and the header row.
OpenCsv ==
    /\ pc = "pass1"
    /\ PassOver
    /\ out_file' = [exists |-> TRUE,
                    content |-> << <<"latitude", "longitude", "color", "color_id">> >>]
    /\ y' = 1 /\ x' = 1
    /\ pc' = "pass2"
    /\ UNCHANGED <<image_file, points, gridonly, img, height, width, error>>

\* Lines 104-114: one sampled pixel of the second pass.  A color that is
\* neither matched nor registered makes color_to_id[...] raise KeyError.
SecondPass ==
    /\ pc = "pass2"
    /\ y <= Len(pys) /\ x <= Len(pxs)
    /\ LET bgr == img[pys[y]][pxs[x]]
           r == bgr[3]
           g == bgr[2]
           b == bgr[1]
           color == <<r, g, b>>
           geo == pixel_to_geo(pxs[x], pys[y], width, height,
                               Corners.nw_lat, Corners.nw_lon,
                               Corners.se_lat, Corners.se_lon)
           found == find_closest_color(color, color_to_id, color_threshold)
           closest_color == IF found = <<>> THEN color ELSE found[1]
           hex_color == rgb_to_hex(closest_color[1], closest_color[2], closest_color[3])
       IN  IF ~is_color_valid(r, g, b)
           THEN UNCHANGED <<out_file, lookups, pc, error>>
           ELSE /\ lookups' = Append(lookups,
                        [pass |-> 2, py |-> pys[y], px |-> pxs[x], color |-> color,
                         items |-> color_to_id, result |-> found])
                /\ IF HasKey(color_to_id, closest_color)
                   THEN /\ out_file' =
                             [exists |-> TRUE,
                              content |-> Append(out_file.content,
                                  <<geo[1], geo[2], hex_color,
                                    GetItem(color_to_id, closest_color)>>)]
                        /\ UNCHANGED <<pc, error>>
                   ELSE /\ pc' = "raised"
                        /\ error' = "KeyError"
                        /\ UNCHANGED out_file
    /\ IF x < Len(pxs) THEN x' = x + 1 /\ y' = y
       ELSE x' = 1 /\ y' = y + 1
    /\ UNCHANGED <<image_file, sample_rate, color_threshold, numpy, color_to_id,
                   next_id, gridonly, img, height, width>>

\* Lines 114-117: the loops end, the file is closed.
CloseCsv ==
    /\ pc = "pass2"
    /\ PassOver
    /\ pc' = "done"
    /\ UNCHANGED <<image_file, points, gridonly, img, height, width, y, x,
                   out_file, error>>

NextPoints ==
    \/ PointsLoadMissing
    \/ PointsRangeError
    \/ PointsLoad
    \/ FirstPass
    \/ OpenCsv
    \/ SecondPass
    \/ CloseCsv

SpecPoints == InitPoints /\ [][NextPoints]_vars

\* ============================================================ sepal_shaper
\* shapefile_to_csv: one CSV row per feature whose 'properties' value is in
\* the properties table and whose geometry yields a coordinate.

\* ------------------------------------------------------------------ inputs
MaxFeatures == 3     \* features in the input shapefile 0..MaxFeatures

\* A geometry: its type, is_valid, is_empty, and the coordinate of the point
\* or of the centroid.  NoGeometry is None.
Geometry(type, valid, empty, gx, gy) ==
    [type |-> type, is_valid |-> valid, is_empty |-> empty, x |-> gx, y |-> gy]
PointAt(gx, gy) == Geometry("Point", TRUE, FALSE, gx, gy)
PolygonAround(gx, gy) == Geometry("Polygon", TRUE, FALSE, gx, gy)
InvalidPolygon == Geometry("Polygon", FALSE, FALSE, 0, 0)
EmptyPoint == Geometry("Point", TRUE, TRUE, 0, 0)
NoGeometry == Geometry("None", FALSE, FALSE, 0, 0)

GdfRow(properties, geometry) == [properties |-> properties, geometry |-> geometry]

\* The properties table: "a" and "b" are in its index; the values of "b"
\* hold a character the output file's encoding cannot represent.
PropertiesTable ==
    << [key |-> "a", values |-> <<"forest">>, encodable |-> TRUE],
       [key |-> "b", values |-> <<"for\\u00eat">>, encodable |-> FALSE] >>

PropertiesFile ==
    [readable |-> TRUE, columns |-> <<"landuse">>, table |-> PropertiesTable]
MissingProperties ==
    [readable |-> FALSE, columns |-> <<>>, table |-> <<>>]

GdfRows ==
    {GdfRow("z", PointAt(80, 7)),
     GdfRow("a", PointAt(80, 7)),
     GdfRow("a", PolygonAround(81, 8)),
     GdfRow("a", InvalidPolygon),
     GdfRow("a", EmptyPoint),
     GdfRow("a", NoGeometry),
     GdfRow("b", PointAt(80, 7)),
     GdfRow("b", InvalidPolygon)}

FeatureFile(crs, rows) == [readable |-> TRUE, crs |-> crs, rows |-> rows]
UnreadableFeatureFile == [readable |-> FALSE, crs |-> Null, rows |-> <<>>]

ShaperRuns ==
    {[shp |-> FeatureFile("EPSG:4326", rows), props |-> PropertiesFile] :
        rows \in UNION {[1..n -> GdfRows] : n \in 0..MaxFeatures}}
    \cup {[shp |-> UnreadableFeatureFile, props |-> PropertiesFile],
          [shp |-> FeatureFile(Null, <<GdfRow("a", PointAt(80, 7))>>),
           props |-> PropertiesFile],
          [shp |-> FeatureFile("EPSG:4326", <<GdfRow("a", PointAt(80, 7))>>),
           props |-> MissingProperties]}

\* ------------------------------------------------------------ pure functions
\* properties_value in properties_df.index, and properties_df.loc[...]
InIndex(table, key) == \E i \in DOMAIN table : table[i].key = key
loc(table, key) == table[CHOOSE i \in DOMAIN table : table[i].key = key]

\* Lines 56-64: the coordinate of a geometry that is not None and is valid.
\* Reading x of an empty point, or of the empty centroid of an empty
\* geometry, raises: the result is <<>>.
Coordinate(geom) == IF geom.is_empty THEN <<>> ELSE <<geom.x, geom.y>>

\* csvwriter.writerow raises when the text cannot be encoded.
WriterowRaises_Never(entry) == FALSE

WriterowRaises(entry) == ~entry.encodable

\* ------------------------------------------------------------------ actions
InitShaper ==
    /\ \E run \in ShaperRuns :
          /\ input_shapefile = run.shp
          /\ properties_csv = run.props
    /\ feature_idx = 0
    /\ total_count = 0 /\ kept_count = 0 /\ error_count = 0 /\ no_match_count = 0
    /\ outcomes = <<>>
    /\ pc = "start"
    /\ out_file = NoFile
    /\ error = Null
    /\ image_file = MissingImage
    /\ img = Null /\ height = Null /\ width = Null
    /\ y = Null /\ x = Null
    /\ sample_rate = 0 /\ color_threshold = 0 /\ numpy = Null
    /\ color_to_id = <<>> /\ next_id = 0 /\ lookups = <<>>
    /\ shapefile = MissingShapefile
    /\ grid_size = 0 /\ x_offset = 0 /\ y_offset = 0 /\ n_clusters = 0
    /\ gdf = Null /\ bounds = Null /\ transform = Null
    /\ buffered_geometry = Null
    /\ color_data = <<>> /\ grid_cells = <<>> /\ cells = <<>>
    /\ kmeans = Null
    /\ cluster_centers = Null /\ cluster_hex_colors = Null
    /\ features = <<>>

\* The variables shapefile_to_csv does not have.
notshaper == <<image_file, img, height, width, y, x, points, gridstate>>

\* Lines 12-21 and 84-85: read_file or read_csv raises, or the CRS is
\* missing; the outer handler prints the error and the function returns.
ShaperAbort ==
    /\ pc = "start"
    /\ \/ ~input_shapefile.readable
       \/ input_shapefile.crs = Null
       \/ ~properties_csv.readable
    /\ error' = IF ~input_shapefile.readable THEN "DriverError"
                ELSE IF input_shapefile.crs = Null THEN "ValueError"
                ELSE "FileNotFoundError"
    /\ pc' = "returned"
    /\ UNCHANGED <<notshaper, shaper, out_file>>

\* Lines 14-38: the inputs are read, the file is opened, the header is
\* written and the counters are set to 0.
ShaperOpen ==
    /\ pc = "start"
    /\ input_shapefile.readable
    /\ input_shapefile.crs # Null
    /\ properties_csv.readable
    /\ out_file' = [exists |-> TRUE,
                    content |-> << <<"XCoordinate", "YCoordinate">>
                                     \o properties_csv.columns >>]
    /\ total_count' = 0 /\ kept_count' = 0
    /\ error_count' = 0 /\ no_match_count' = 0
    /\ feature_idx' = 1
    /\ pc' = "loop"
    /\ UNCHANGED <<notshaper, input_shapefile, properties_csv, outcomes, error>>

\* Lines 41-76: one feature.
ProcessFeature ==
    /\ pc = "loop"
    /\ feature_idx <= Len(input_shapefile.rows)
    /\ LET row == input_shapefile.rows[feature_idx]
           properties_value == row.properties
           geom == row.geometry
           matched == InIndex(properties_csv.table, properties_value)
           entry == loc(properties_csv.table, properties_value)
           usable == matched /\ geom.type # "None" /\ geom.is_valid
           xy == Coordinate(geom)
           written == usable /\ xy # <<>> /\ ~WriterowRaises(entry)
           kept == IF written THEN kept_count + 1 ELSE kept_count
           errors == IF matched /\ ~written THEN error_count + 1 ELSE error_count
           no_match == IF matched THEN no_match_count ELSE no_match_count + 1
       IN  /\ total_count' = total_count + 1
           /\ out_file' = IF written
                          THEN [exists |-> TRUE,
                                content |-> Append(out_file.content,
                                                   xy \o entry.values)]
                          ELSE out_file
           /\ kept_count' = kept
           /\ error_count' = errors
           /\ no_match_count' = no_match
           /\ outcomes' = Append(outcomes, <<kept, errors, no_match>>)
    /\ feature_idx' = feature_idx + 1
    /\ UNCHANGED <<notshaper, input_shapefile, properties_csv, pc, error>>

\* Lines 78-83: the loop is over, the file is closed, the counts are printed.
ShaperFinish ==
    /\ pc = "loop"
    /\ feature_idx > Len(input_shapefile.rows)
    /\ pc' = "done"
    /\ UNCHANGED <<notshaper, shaper, out_file, error>>

NextShaper ==
    \/ ShaperAbort
    \/ ShaperOpen
    \/ ProcessFeature
    \/ ShaperFinish

SpecShaper == InitShaper /\ [][NextShaper]_vars

\* ------------------------------------------------------ derived predicates
\* The two grid loops have ended (lines 47-62 are behind the run).
GridFinished ==
    \/ pc = "grid" /\ y > Len(ys)
    \/ pc \in {"lloyd", "fitted", "features", "dump", "done"}
    \/ pc = "raised" /\ error = "ValueError" /\ grid_size # 0

\* The cells that passed the test of line 60, in the order visited.
IsRetained(c) == c.retained
RetainedCells == SelectSeq(cells, IsRetained)

\* Pixel (px, py) lies in the half-open pixel box b.
InBox(px, py, b) == b.x0 <= px /\ px < b.x1 /\ b.y0 <= py /\ py < b.y1

\* Every pixel of the raster lies in exactly one cell box.
PixelsTiled ==
    \A px \in 0..(width - 1), py \in 0..(height - 1) :
        Cardinality({i \in DOMAIN cells : InBox(px, py, cells[i].box)}) = 1

\* Geographic coordinates of a pixel column / row, as numerators over width
\* and over height: x grows from minx, y falls from maxy; NaN when the
\* bounds are NaN.
GeoX(px) == IF bounds.nan THEN NaN
            ELSE bounds.minx * width + px * (bounds.maxx - bounds.minx)
GeoY(py) == IF bounds.nan THEN NaN
            ELSE bounds.maxy * height - py * (bounds.maxy - bounds.miny)

\* The closed ring of the cell's pixel box shifted by the offsets.
CellRing(c) ==
    LET xa == GeoX(c.box.x0 + x_offset)
        xb == GeoX(c.box.x1 + x_offset)
        ya == GeoY(c.box.y0 + y_offset)
        yb == GeoY(c.box.y1 + y_offset)
    IN  << <<xa, ya>>, <<xb, ya>>, <<xb, yb>>, <<xa, yb>>, <<xa, ya>> >>

\* The cell's shifted box comes within the buffer radius
\* grid_size * max(extent) / max(width, height) of the geometry g.
CellMeetsBuffer(c, g) ==
    LET extent == Max2(bounds.maxx - bounds.minx, bounds.maxy - bounds.miny)
        m == Max2(width, height)
        gx == Max2(0, Max2(g.x0 * width - GeoX(c.box.x1 + x_offset),
                           GeoX(c.box.x0 + x_offset) - g.x1 * width))
        gy == Max2(0, Max2(g.y0 * height - GeoY(c.box.y0 + y_offset),
                           GeoY(c.box.y1 + y_offset) - g.y1 * height))
    IN  /\ ~(extent = 0 /\ IsPoint(g))
        /\ Sq(gx) * Sq(height) * Sq(m) + Sq(gy) * Sq(width) * Sq(m)
              <= Sq(grid_size) * Sq(extent) * Sq(width) * Sq(height)

\* Cluster id j as it is written into a feature.
ClusterName(j) == "Cluster_" \o Str(j)

\* The reference geometry is empty or a single point: no extent at all.
NoExtent == bounds.nan \/ (bounds.minx = bounds.maxx /\ bounds.miny = bounds.maxy)

\* The reference geometry is empty or has zero extent in some dimension.
ZeroExtent == bounds.nan \/ bounds.minx = bounds.maxx \/ bounds.miny = bounds.maxy

\* ------------------------------------------------------------------ claims

\* C1: for grid_size >= 1, when the grid loop has ended, every pixel of the
\* raster lies in exactly one cell box, and every box that is turned into a
\* polygon lies inside [0, width] x [0, height].
C1_BoxesInsideRaster ==
    (GridFinished /\ grid_size >= 1) =>
        /\ PixelsTiled
        /\ \A i \in DOMAIN cells :
              /\ 0 <= cells[i].box.x0 /\ cells[i].box.x1 <= width
              /\ 0 <= cells[i].box.y0 /\ cells[i].box.y1 <= height

\* C2: a run that retained n cells with 0 < n < n_clusters does not fail:
\* it completes with as many clusters as there are distinct retained colors,
\* each of them used by some feature, and the collection is written.
C2_FewCellsReduceK ==
    (Terminated /\ GridFinished
        /\ 0 < Len(grid_cells) /\ Len(grid_cells) < n_clusters) =>
        /\ pc = "done"
        /\ Len(cluster_hex_colors)
              = Cardinality({grid_cells[i][2] : i \in DOMAIN grid_cells})
        /\ \A j \in 0..(Len(cluster_hex_colors) - 1) :
              \E i \in DOMAIN features : features[i].properties.cluster = ClusterName(j)
        /\ out_file.exists

C4_RedBlueScenario ==
    (pc = "done" /\ image_file.width = 20 /\ image_file.height = 20
        /\ grid_size = 10 /\ n_clusters = 2) =>
        /\ Len(cluster_hex_colors) = 2
        /\ Len(features) = 4
        /\ \A j \in 0..1 :
              Cardinality({i \in DOMAIN features :
                              features[i].properties.cluster = ClusterName(j)}) = 2
        /\ \A i \in DOMAIN features :
              features[i].properties.color =
                  IF image_file.pixels[RetainedCells[i].y][RetainedCells[i].x] = Red
                  THEN "#ff0000" ELSE "#0000ff"

\* C5: a visited cell is retained iff the ring of its pixel box shifted by
\* the offsets comes within the buffer radius of some reference geometry;
\* grid_cells holds exactly the retained cells, and the polygons of a
\* completed run's features are exactly the rings of those cells.
C5_RetainedIffIntersects ==
    /\ \A i \in DOMAIN cells :
          /\ cells[i].retained <=> \E n \in DOMAIN gdf : CellMeetsBuffer(cells[i], gdf[n])
          /\ ExteriorCoords(cells[i].poly) = CellRing(cells[i])
    /\ Len(grid_cells) = Len(RetainedCells)
    /\ pc = "done" =>
          {features[i].geometry.coordinates[1] : i \in DOMAIN features}
              = {CellRing(cells[i]) : i \in {n \in DOMAIN cells :
                    \E g \in DOMAIN gdf : CellMeetsBuffer(cells[n], gdf[g])}}

\* C5 witness: a completed run with nonzero offsets that kept one cell and
\* dropped another.
C5_Witness ==
    /\ pc = "done"
    /\ x_offset # 0
    /\ \E i, j \in DOMAIN cells : cells[i].retained /\ ~cells[j].retained

\* C6: the collection has one feature per retained cell, the i-th feature
\* is that of the i-th retained cell, and retained cells are ordered by row
\* and, within a row, by column.
C6_RowMajorFeatures ==
    pc \in {"dump", "done"} =>
        /\ Len(features) = Len(RetainedCells)
        /\ \A i \in DOMAIN features :
              features[i].geometry.coordinates[1] = ExteriorCoords(RetainedCells[i].poly)
        /\ \A i, j \in DOMAIN RetainedCells :
              i < j => \/ RetainedCells[i].y < RetainedCells[j].y
                       \/ /\ RetainedCells[i].y = RetainedCells[j].y
                          /\ RetainedCells[i].x < RetainedCells[j].x
        /\ pc = "done" => out_file.content[1].features = features

\* C6 witness: a completed run whose features span two rows and two columns.
C6_Witness ==
    /\ pc = "done"
    /\ Len(features) >= 3
    /\ \E i, j \in DOMAIN RetainedCells :
          /\ RetainedCells[i].y # RetainedCells[j].y
          /\ RetainedCells[i].x # RetainedCells[j].x

\* C7: in a completed run every cluster id of a feature is one of
\* 0 .. k - 1, where k is the number of clusters returned, and k is at most
\* n_clusters and at most the number of retained cells.
C7_ClusterIdsInRange ==
    pc = "done" =>
        /\ \A i \in DOMAIN features :
              \E j \in 0..(Len(cluster_hex_colors) - 1) :
                  features[i].properties.cluster = ClusterName(j)
        /\ Len(cluster_hex_colors) = Len(kmeans.cluster_centers_)
        /\ Len(cluster_hex_colors) <= n_clusters
        /\ Len(cluster_hex_colors) <= Len(RetainedCells)

\* C7 witness: a completed, converged run that wrote the highest id.
C7_Witness ==
    /\ pc = "done"
    /\ kmeans.converged
    /\ n_clusters = 2
    /\ \E i \in DOMAIN features : features[i].properties.cluster = ClusterName(1)

\* C8: once the grid loop has ended with no cell retained, the run can only
\* end with the error of fit(): no feature exists and the output file is
\* never created.
C8_NoCellsRaises ==
    (GridFinished /\ Len(RetainedCells) = 0) =>
        /\ pc \in {"grid", "raised"}
        /\ pc = "grid" => ENABLED FitRaises
        /\ Terminated => error = "ValueError"
        /\ features = <<>>
        /\ out_file = NoFile

\* C8 witness: a run over a geometry with extent whose offset-shifted cells
\* all missed it, ended by the error.
C8_Witness ==
    /\ pc = "raised" /\ error = "ValueError"
    /\ ~NoExtent
    /\ x_offset # 0
    /\ Len(cells) > 0
    /\ \A i \in DOMAIN cells : ~cells[i].retained

\* C9: with an empty or zero-extent reference geometry every cell is
\* rejected and the run finishes normally with an empty collection.
C9_ZeroExtentEmptyOutput ==
    (Terminated /\ GridFinished /\ ZeroExtent) =>
        /\ \A i \in DOMAIN cells : ~cells[i].retained
        /\ pc = "done"
        /\ out_file.content = <<[type |-> "FeatureCollection", features |-> <<>>]>>

\* C10: a run that ended either completed, and the file holds the whole
\* collection with one feature per retained cell, or failed, and the file
\* was never created; the file is touched only after the last failing step.
C10_NoPartialOutput ==
    /\ Terminated =>
          \/ /\ pc = "done"
             /\ out_file.exists
             /\ out_file.content = <<[type |-> "FeatureCollection", features |-> features]>>
             /\ Len(features) = Len(RetainedCells)
          \/ /\ pc \in {"returned", "raised"}
             /\ out_file = NoFile
    /\ out_file.exists => pc \in {"dump", "done"}

\* C10 witness: a completed run that wrote several features.
C10_Witness ==
    /\ pc = "done"
    /\ out_file.exists
    /\ Len(features) >= 2


\* C11: a run with grid_size <= 0 whose image and shapefile load samples no
\* cell, makes no feature and never creates the output file; it cannot
\* complete, it always has a next step until it ends, and it ends with an
\* error raised to the caller.
C11_NonPositiveGridFails ==
    (grid_size <= 0 /\ image_file.exists /\ image_file.readable
        /\ shapefile.readable) =>
        /\ pc \in {"start", "grid", "raised"}
        /\ cells = <<>> /\ color_data = <<>> /\ features = <<>>
        /\ out_file = NoFile
        /\ pc = "start" => ENABLED (Load \/ LoadRangeError)
        /\ pc = "grid" => ENABLED FitRaises
        /\ pc = "raised" => error = "ValueError"

\* C11 witness: a run with a negative grid size, ended by the error.
C11_Witness ==
    /\ grid_size < 0
    /\ pc = "raised"
    /\ error = "ValueError"

\* C12: a run with valid parameters whose reference geometry has no CRS
\* samples no cell, writes no output and ends with the UndefinedCRS error.
C12_NullCRSFails ==
    (image_file.exists /\ image_file.readable /\ grid_size >= 1
        /\ shapefile.readable /\ shapefile.crs = Null) =>
        /\ cells = <<>>
        /\ out_file = NoFile
        /\ Terminated => (pc = "raised" /\ error = "UndefinedCRS")

\* C13: over a raster of one color c, every cell's representative color is
\* c (in the channel order of the decoded array), and a run that retained a
\* cell completes, for any n_clusters >= 1, with one cluster in the returned
\* list, every feature carrying the same cluster id and the hex of c.
C13_SingleColorOneCluster ==
    \A c \in {Red, Olive} :
        (image_file.readable /\ grid_size >= 1
            /\ image_file.pixels = Uniform(image_file.width, image_file.height, c)) =>
            /\ \A i \in DOMAIN cells : cells[i].color = <<c[3], c[2], c[1]>>
            /\ (Terminated /\ GridFinished /\ Len(RetainedCells) >= 1) =>
                  /\ pc = "done"
                  /\ Len(cluster_hex_colors) = 1
                  /\ \A n \in DOMAIN features :
                        /\ features[n].properties.cluster = ClusterName(0)
                        /\ features[n].properties.color = rgb_to_hex(c[1], c[2], c[3])

\* C15: the geometry of every feature is one ring of exactly 5 positions:
\* the images of (x0 + x_offset, y0 + y_offset) = (x1, y1) and of the
\* opposite corner (x2, y2) of the cell's pixel box, in the order
\* (x1,y1), (x2,y1), (x2,y2), (x1,y2), and (x1,y1) again.
C15_ClosedRing ==
    \A i \in DOMAIN features :
        LET coords == features[i].geometry.coordinates
            c == RetainedCells[i]
            x1 == GeoX(c.x + x_offset)
            y1 == GeoY(c.y + y_offset)
            x2 == GeoX(c.x + grid_size + x_offset)
            y2 == GeoY(c.y + grid_size + y_offset)
        IN  /\ Len(coords) = 1
            /\ Len(coords[1]) = 5
            /\ coords[1][5] = coords[1][1]
            /\ coords[1] = << <<x1, y1>>, <<x2, y1>>, <<x2, y2>>, <<x1, y2>>, <<x1, y1>> >>

\* C15 witness: a completed run with nonzero offsets whose first feature has
\* four different corners.
C15_Witness ==
    /\ pc = "done"
    /\ x_offset # 0
    /\ Len(features) >= 1
    /\ Cardinality({features[1].geometry.coordinates[1][n] : n \in 1..5}) = 4

\* Sum of channel f of the decoded array over the pixel columns xa .. xb - 1
\* of the rows ya .. yb - 1.
ChannelSum(f, xa, xb, ya, yb) ==
    SumSeq([r \in 1..(yb - ya) |->
              SumSeq([c \in 1..(xb - xa) |-> img[ya + r - 1][xa + c - 1][f]])])

\* C16: the representative color of every cell is, per channel, the sum of
\* that channel over the pixels of the cell's box clipped to the image,
\* divided by their number and truncated; each channel lies in 0 .. 255.
C16_TruncatedMean ==
    \A i \in DOMAIN cells :
        LET c == cells[i]
            xb == Min2(c.x + grid_size, width)
            yb == Min2(c.y + grid_size, height)
            n == (xb - c.x) * (yb - c.y)
        IN  /\ n >= 1
            /\ c.npixels = n
            /\ \A f \in 1..3 :
                  /\ c.color[f] = ChannelSum(f, c.x, xb, c.y, yb) \div n
                  /\ c.color[f] \in 0..255

\* C16 witness: a cell clipped at the image edge whose mean is not a whole
\* number (255 and 0 averaged to 127).
C16_Witness ==
    \E i \in DOMAIN cells :
        /\ cells[i].box # cells[i].section
        /\ cells[i].npixels >= 2
        /\ cells[i].color[1] = 127

\* The transform has been built from bounds that are numbers.
TransformBuilt ==
    /\ pc \notin {"start", "returned"}
    /\ shapefile.readable
    /\ ~bounds.nan

\* C17: the map built from the bounds and the raster size sends pixel
\* (0, 0) to (minx, maxy) and pixel (width, height) to (maxx, miny); when
\* minx < maxx it is strictly increasing in the pixel column and when
\* miny < maxy strictly decreasing in the pixel row; pixel_to_geo with the
\* same corners is the same map.
C17_AffineOrientation ==
    TransformBuilt =>
        /\ ApplyTransform(transform, 0, 0) = <<bounds.minx * width, bounds.maxy * height>>
        /\ ApplyTransform(transform, width, height)
              = <<bounds.maxx * width, bounds.miny * height>>
        /\ \A pa, pb \in (-1)..(width + 1), qa, qb \in (-1)..(height + 1) :
              LET a == ApplyTransform(transform, pa, qa)
                  b == ApplyTransform(transform, pb, qb)
                  g == pixel_to_geo(pa, qa, width, height, bounds.maxy, bounds.minx,
                                    bounds.miny, bounds.maxx)
              IN  /\ (bounds.minx < bounds.maxx /\ pa < pb) => a[1] < b[1]
                  /\ (bounds.miny < bounds.maxy /\ qa < qb) => a[2] > b[2]
                  /\ g = <<a[2], a[1]>>

\* C17 witness: a transform built over bounds with extent in both
\* dimensions for a raster of more than one column.
C17_Witness ==
    /\ TransformBuilt
    /\ bounds.minx < bounds.maxx /\ bounds.miny < bounds.maxy
    /\ width >= 2

\* C18: the stages follow each other: no cell is sampled twice; once the
\* fit has started every cell of the grid has been sampled and filtered;
\* no feature exists before the fit has finished and labelled every sample;
\* the output file is touched only when every feature has been assembled.
C18_StageBarrier ==
    /\ \A i, j \in DOMAIN cells :
          i # j => <<cells[i].x, cells[i].y>> # <<cells[j].x, cells[j].y>>
    /\ pc \in {"lloyd", "fitted", "features", "dump", "done"} =>
          /\ Len(cells) = Len(xs) * Len(ys)
          /\ Len(color_data) = Len(RetainedCells)
          /\ Len(kmeans.labels_) = Len(color_data)
    /\ pc \in {"start", "grid", "lloyd", "fitted", "raised", "returned"} =>
          features = <<>>
    /\ pc \in {"features", "dump", "done"} =>
          \A i \in DOMAIN kmeans.labels_ : kmeans.labels_[i] >= 0
    /\ out_file.exists =>
          /\ pc \in {"dump", "done"}
          /\ Len(features) = Len(grid_cells)

\* C18 witness: a completed, converged run over a grid of four cells.
C18_Witness ==
    /\ pc = "done"
    /\ kmeans.converged
    /\ Len(cells) = 4
    /\ Len(features) >= 2

\* ------------------------------------------------- image_to_points claims
\* The squared Euclidean distance of two colors, in exact arithmetic.
Euclid2(c1, c2) == Sq(c1[1] - c2[1]) + Sq(c1[2] - c2[2]) + Sq(c1[3] - c2[3])

\* The registered colors of a lookup whose distance to the pixel color is
\* below the threshold, as positions in registration order.
Within(l) ==
    {i \in DOMAIN l.items :
        RootBelow(color_distance(l.color, l.items[i][1]), color_threshold)}

\* The sampled pixels of the image in loop order.
SampledPixels ==
    [k \in 1..(Len(pys) * Len(pxs)) |->
        img[pys[((k - 1) \div Len(pxs)) + 1]][pxs[((k - 1) % Len(pxs)) + 1]]]

\* The first pass over a sequence of pixels, from an empty registry.
RECURSIVE RegisterFrom(_, _, _)
RegisterFrom(reg, pixels, k) ==
    IF k > Len(pixels) THEN reg
    ELSE RegisterFrom(RegisterPixel(reg, pixels[k], color_threshold), pixels, k + 1)

RegistryOf(pixels) == RegisterFrom([color_to_id |-> <<>>, next_id |-> 1], pixels, 1)

Swapped(s, i, j) ==
    [k \in DOMAIN s |-> IF k = i THEN s[j] ELSE IF k = j THEN s[i] ELSE s[k]]

Keys(items) == {items[i][1] : i \in DOMAIN items}

\* C19: every call of find_closest_color returns the earliest registered
\* color, in registration order, whose distance to the pixel color is
\* strictly below the threshold, whatever the distances of the colors
\* registered after it, and returns None when no registered color is that
\* close.
C19_FirstSeenWins ==
    \A n \in DOMAIN lookups :
        LET l == lookups[n]
        IN  IF Within(l) = {}
            THEN l.result = <<>>
            ELSE l.result = <<l.items[SetMin(Within(l))][1]>>

\* C19 witness: a finished run in which a pixel was merged into the first
\* registered color although a color registered later is strictly nearer,
\* and in which the same pixels with two of them exchanged register a
\* different set of colors under different ids.
C19_Witness ==
    /\ pc = "done"
    /\ \E n \in DOMAIN lookups :
          LET l == lookups[n]
          IN  /\ l.result # <<>>
              /\ l.result[1] = l.items[1][1]
              /\ \E i \in DOMAIN l.items :
                    /\ i > 1
                    /\ Euclid2(l.color, l.items[i][1]) < Euclid2(l.color, l.items[1][1])
    /\ \E i, j \in DOMAIN SampledPixels :
          LET other == RegistryOf(Swapped(SampledPixels, i, j)).color_to_id
          IN  /\ Keys(other) # Keys(color_to_id)
              /\ other # color_to_id

\* C20: every distance find_closest_color computes between a pixel color and
\* a registered color is the Euclidean distance of the two colors.
C20_EuclideanDistance ==
    \A n \in DOMAIN lookups :
        LET l == lookups[n]
            last == IF Within(l) = {} THEN Len(l.items) ELSE SetMin(Within(l))
        IN  \A i \in 1..last :
                color_distance(l.color, l.items[i][1]) = Euclid2(l.color, l.items[i][1])

\* Two colors are nearer to each other than the threshold, in exact
\* arithmetic.
Near(c1, c2) == RootBelow(Euclid2(c1, c2), color_threshold)

\* C21: during and after the first pass any two distinct registered colors
\* are at Euclidean distance >= color_threshold from each other, and white
\* is never registered.
C21_RegisteredApart ==
    /\ \A i, j \in DOMAIN color_to_id :
          color_to_id[i][1] # color_to_id[j][1] =>
              ~Near(color_to_id[i][1], color_to_id[j][1])
    /\ White \notin Keys(color_to_id)

\* C22: the ids of the registered colors are 1..N in first-seen order: the
\* i-th registered color has id i, and the next id is N + 1.
C22_IdsDense ==
    pc \in {"pass1", "pass2", "done"} =>
        /\ \A i \in DOMAIN color_to_id : color_to_id[i][2] = i
        /\ \A i, j \in DOMAIN color_to_id :
              i # j => color_to_id[i][1] # color_to_id[j][1]
        /\ next_id = Len(color_to_id) + 1

\* The sampled pixels in loop order with their positions, and those of them
\* that are not white.
SampledAt ==
    [k \in 1..(Len(pys) * Len(pxs)) |->
        LET py == pys[((k - 1) \div Len(pxs)) + 1]
            px == pxs[((k - 1) % Len(pxs)) + 1]
        IN  [py |-> py, px |-> px,
             color |-> <<img[py][px][3], img[py][px][2], img[py][px][1]>>]]

NotWhite(p) == p.color # White

Rows == Tail(out_file.content)

\* C23: the second pass never fails on its id lookup, and the finished file
\* holds, after the header, one row per sampled pixel that is not white, in
\* loop order; each row carries the position of its pixel and the color and
\* id of a registered color that is within color_threshold of the pixel's
\* color (Euclidean distance), the pixel's own color when the threshold is
\* <= 0.
C23_RowPerPixel ==
    /\ error # "KeyError"
    /\ pc = "done" =>
          LET kept == SelectSeq(SampledAt, NotWhite)
          IN  /\ Len(Rows) = Len(kept)
              /\ \A k \in DOMAIN kept :
                    LET p == kept[k]
                        geo == pixel_to_geo(p.px, p.py, width, height,
                                            Corners.nw_lat, Corners.nw_lon,
                                            Corners.se_lat, Corners.se_lon)
                    IN  /\ Rows[k][1] = geo[1]
                        /\ Rows[k][2] = geo[2]
                        /\ \E i \in DOMAIN color_to_id :
                              LET c == color_to_id[i][1]
                              IN  /\ Rows[k][3] = rgb_to_hex(c[1], c[2], c[3])
                                  /\ Rows[k][4] = color_to_id[i][2]
                                  /\ IF color_threshold <= 0 THEN c = p.color
                                     ELSE Near(p.color, c)

\* ---------------------------------------------------- sepal_shaper claims
\* The outcome counters before feature i was processed.
CountsBefore(i) == IF i = 1 THEN <<0, 0, 0>> ELSE outcomes[i - 1]

\* A feature whose row write fails: it matches the table, its geometry
\* yields a coordinate, and its values cannot be encoded.
WriteFails(row) ==
    /\ \E i \in DOMAIN properties_csv.table :
          /\ properties_csv.table[i].key = row.properties
          /\ ~properties_csv.table[i].encodable
    /\ row.geometry.type # "None"
    /\ row.geometry.is_valid
    /\ ~row.geometry.is_empty

\* C24: in the loop and after it, total_count = kept_count + error_count +
\* no_match_count; every processed feature raised exactly one of the three
\* counters by one; the CSV holds kept_count data rows; and a feature whose
\* row write failed raised error_count, not kept_count.
C24_CountersPartition ==
    pc \in {"loop", "done"} =>
        /\ total_count = kept_count + error_count + no_match_count
        /\ total_count = Len(outcomes)
        /\ total_count = feature_idx - 1
        /\ outcomes # <<>> =>
              outcomes[Len(outcomes)] = <<kept_count, error_count, no_match_count>>
        /\ \A i \in DOMAIN outcomes :
              LET d == [f \in 1..3 |-> outcomes[i][f] - CountsBefore(i)[f]]
              IN  /\ \A f \in 1..3 : d[f] \in {0, 1}
                  /\ d[1] + d[2] + d[3] = 1
                  /\ WriteFails(input_shapefile.rows[i]) => d[2] = 1
        /\ Len(Rows) = kept_count

\* C24 witness: a finished run that kept a feature, dropped one without a
\* match, and counted a feature whose row write failed as an error.
C24_Witness ==
    /\ pc = "done"
    /\ kept_count >= 1
    /\ no_match_count >= 1
    /\ error_count >= 1
    /\ \E i \in DOMAIN outcomes : WriteFails(input_shapefile.rows[i])

====
